---- MODULE Spec2Model ----
(***************************************************************************)
(* Model of the data-retrieval core of the BYN exchange dashboard          *)
(* (src/app.py): the chunked dynamics fetcher, the multi-currency          *)
(* aggregator with its identifier resolution, and the 7-day snapshot       *)
(* comparison of the rates table.                                          *)
(*                                                                         *)
(* Dates are represented by their ordinal (datetime.date.toordinal minus   *)
(* a fixed origin): date arithmetic with timedelta(days=n) is integer      *)
(* addition and date comparison is integer comparison.  Rates are counted  *)
(* in units of 1/100 BYN; a float64 cell is its exact rational value.      *)
(***************************************************************************)
EXTENDS Integers, Sequences, FiniteSets, TLC

\* ---------------------------------------------------------------- constants
\* src/app.py:61
max_days == 365

\* ------------------------------------------------------------------- bounds
\* ranges handed to the fetcher span up to MaxChunks full windows (+ slack)
MaxChunks == 2
\* spans are taken within MaxSlack days of every multiple of max_days
MaxSlack == 1
\* a span away from every window boundary (the 400-day example), also the
\* second point of the aggregator's date grid
Horizon == 400
\* longest list of codes handed to rates_for_currencies
MaxCodes == 2
\* longest currency directory
MaxRecs == 2

\* ------------------------------------------------------------------ helpers
Min(a, b) == IF a <= b THEN a ELSE b
Max(a, b) == IF a >= b THEN a ELSE b

SeqsUpTo(S, n) == UNION {[1..k -> S] : k \in 0..n}

\* official rates the upstream may quote (3.50 and 3.00 BYN per Cur_Scale units)
Rates == {350, 300}

VARIABLES
    caller,       \* which operation runs: "direct" (chunked_dynamics_fetch
                  \* called on its own), "rates_for_currencies", "compare"
    pc,           \* position of the running operation
    codes,        \* rates_for_currencies: argument codes
    currency_map, \* rates_for_currencies: argument currency_map (rows in order)
    start,        \* rates_for_currencies: argument start
    end,          \* rates_for_currencies: argument end
    i,            \* rates_for_currencies: index of the code being processed
    series,       \* rates_for_currencies: list of per-code frames
    messages,     \* st.warning / st.info / st.error calls so far
    ret,          \* value returned by rates_for_currencies
    df_rates_ts,  \* chart section: the frame it ends up with
    cur_id,       \* chunked_dynamics_fetch: argument cur_id
    cur_start,    \* chunked_dynamics_fetch: argument start
    cur_end,      \* chunked_dynamics_fetch: argument end
    s,            \* chunked_dynamics_fetch: loop variable s
    dfs,          \* chunked_dynamics_fetch: list of chunk frames
    df_all,       \* chunked_dynamics_fetch: returned frame
    requests,     \* HTTP exchanges with /rates/dynamics so far
    selected_codes, \* comparison: the sidebar's selection
    today_rates_df, \* comparison: today's snapshot (fetch_today_rates)
    response_7,   \* comparison: what GET /rates?ondate= answered
    today_filtered, \* comparison: today's rows of the selected codes
    rates_7,      \* comparison: frame of the compare-date snapshot
    table_df,     \* comparison: merged table with Change_abs / Change_pct
    display_df    \* comparison: formatted table

vars == <<caller, pc, codes, currency_map, start, end, i, series, messages,
          ret, df_rates_ts, cur_id, cur_start, cur_end, s, dfs, df_all,
          requests, selected_codes, today_rates_df, response_7,
          today_filtered, rates_7, table_df, display_df>>

aggVars == <<codes, currency_map, start, end, i, series, messages, ret,
             df_rates_ts>>
fetchArgs == <<cur_id, cur_start, cur_end>>
cmpVars == <<selected_codes, today_rates_df, response_7, today_filtered,
             rates_7, table_df, display_df>>

\* --------------------------------------------------- frames of rate points
\* A dynamics frame is a sequence of rows [Date, Cur_OfficialRate].
Row(d, r) == [Date |-> d, Cur_OfficialRate |-> r]

\* pd.concat(dfs): rows of the chunk frames, in list order
RECURSIVE Concat(_)
Concat(frames) ==
    IF frames = <<>> THEN <<>>
    ELSE Head(frames) \o Concat(Tail(frames))

\* DataFrame.drop_duplicates(subset="Date"), keep="last": a row is kept
\* unless a later row has its Date
DropDuplicatesKeepLast(df) ==
    LET Keep(k) == \A j \in (k + 1)..Len(df) : df[j].Date # df[k].Date
        F[k \in 0..Len(df)] ==
            IF k = 0 THEN <<>>
            ELSE LET prev == F[k - 1]
                 IN IF Keep(k) THEN Append(prev, df[k]) ELSE prev
    IN F[Len(df)]

\* DataFrame.drop_duplicates(subset="Date"), keep="first" (the default):
\* a row is dropped when an earlier row has its Date
DropDuplicates(df) ==
    LET F[k \in 0..Len(df)] ==
            IF k = 0 THEN <<>>
            ELSE LET prev == F[k - 1]
                 IN IF \E j \in 1..Len(prev) : prev[j].Date = df[k].Date
                    THEN prev
                    ELSE Append(prev, df[k])
    IN F[Len(df)]

\* insert a row into a frame sorted by Date, after the rows with an equal Date
Insert(sorted, row) ==
    LET n == Cardinality({j \in 1..Len(sorted) : sorted[j].Date <= row.Date})
    IN SubSeq(sorted, 1, n) \o <<row>> \o SubSeq(sorted, n + 1, Len(sorted))

\* DataFrame.sort_values("Date").reset_index(drop=True)
SortValues(df) ==
    LET F[k \in 0..Len(df)] ==
            IF k = 0 THEN <<>> ELSE Insert(F[k - 1], df[k])
    IN F[Len(df)]

\* src/app.py:80-84
Merge(frames) ==
    IF frames # <<>>
    THEN SortValues(DropDuplicates(Concat(frames)))
    ELSE <<>>

\* ------------------------------------------------- chunked_dynamics_fetch
\* src/app.py:65 with the window one day too long
ChunkEndOffByOne(from, to) == Min(from + max_days, to)

\* src/app.py:65
ChunkEnd(from, to) == Min(from + (max_days - 1), to)

\* src/app.py:64
LoopCond(from, to) == from <= to

\* Bodies the upstream may answer a window [from, to] with: no rows, one row
\* or two rows, dated at the first day of the window or at the first day of
\* the next one (so that two windows can answer with the same date and one
\* window can answer with a date twice or out of order).  Under the
\* aggregator a window is answered with no row or with one row, dated at the
\* window's first day and quoting 3.00.
Points(from, to) ==
    IF caller = "direct"
    THEN {Row(d, r) : d \in {from, to + 1}, r \in Rates}
    ELSE {Row(from, 300)}

Bodies(from, to) ==
    IF caller = "direct"
    THEN {<<>>} \cup {<<p>> : p \in Points(from, to)}
         \cup {<<p, q>> : p \in Points(from, to), q \in Points(from, to)}
    ELSE {<<>>} \cup {<<p>> : p \in Points(from, to)}

\* one HTTP exchange: GET /rates/dynamics/{cur_id}?startdate=..&enddate=..,
\* its status and JSON body, and the index of the code it was made for
Exchange(id, from, to, status, body) ==
    [cur_id |-> id, startdate |-> from, enddate |-> to,
     status |-> status, body |-> body, i |-> i]


\* ------------------------------------------------------ rates_for_currencies
\* A currency_map row: one record of GET /currencies.
CurRow(id, code, scale, from, to) ==
    [Cur_ID |-> id, Cur_Abbreviation |-> code, Cur_Scale |-> scale,
     Cur_DateStart |-> from, Cur_DateEnd |-> to]

\* src/app.py:94
RowsFor(code, map) ==
    LET Test(r) == r.Cur_Abbreviation = code
    IN SelectSeq(map, Test)

\* src/app.py:102
FullCover(rows, from, to) ==
    LET Test(r) == r.Cur_DateStart <= from /\ r.Cur_DateEnd >= to
    IN SelectSeq(rows, Test)

\* src/app.py:105
CoversStart(rows, from) ==
    LET Test(r) == r.Cur_DateStart <= from /\ r.Cur_DateEnd >= from
    IN SelectSeq(rows, Test)

\* the fallback filter tried first
ValidRowsStartFirst(rows, from, to) ==
    IF CoversStart(rows, from) # <<>>
    THEN CoversStart(rows, from)
    ELSE FullCover(rows, from, to)

\* src/app.py:102-105
ValidRows(rows, from, to) ==
    IF FullCover(rows, from, to) = <<>>
    THEN CoversStart(rows, from)
    ELSE FullCover(rows, from, to)

\* src/app.py:109 valid.iloc[0]
Pick(valid) == valid[1]

\* the lower clamp dropped
ClampStartToRecord(from, rec) == rec.Cur_DateStart

\* src/app.py:112
ClampStart(from, rec) == Max(from, rec.Cur_DateStart)

\* the upper clamp dropped
ClampEndNone(to, rec) == to

\* src/app.py:113
ClampEnd(to, rec) == Min(to, rec.Cur_DateEnd)

\* a frame is never taken to be empty
IsEmptyNever(df) == FALSE

\* src/app.py:115 df_dyn.empty
IsEmpty(df) == df = <<>>

\* src/app.py:119-120: the rate column renamed to the code, indexed by Date
Renamed(code, df) ==
    [column |-> code,
     rows |-> [k \in 1..Len(df) |->
                  [Date |-> df[k].Date, value |-> df[k].Cur_OfficialRate]]]

\* pd.DataFrame(): no columns, no rows
EmptyFrame == [columns |-> <<>>, rows |-> <<>>]

RECURSIVE SortedSeq(_)
SortedSeq(S) ==
    IF S = {} THEN <<>>
    ELSE LET m == CHOOSE x \in S : \A y \in S : x <= y
         IN <<m>> \o SortedSeq(S \ {m})

\* src/app.py:123-124: pd.concat(series, axis=1).sort_index().reset_index():
\* one row per date of the union of the frames' dates, a cell being the set
\* holding the frame's value at that date, or empty (NaN)
ConcatAxis1(frames) ==
    LET dates == UNION {{frames[k].rows[j].Date : j \in 1..Len(frames[k].rows)}
                           : k \in 1..Len(frames)}
        index == SortedSeq(dates)
        cell(k, d) == {frames[k].rows[j].value :
                          j \in {j \in 1..Len(frames[k].rows) :
                                    frames[k].rows[j].Date = d}}
    IN [columns |-> <<"Date">> \o [k \in 1..Len(frames) |-> frames[k].column],
        rows |-> [n \in 1..Len(index) |->
                     [Date |-> index[n],
                      cells |-> [k \in 1..Len(frames) |-> cell(k, index[n])]]]]

Msg(level, what, code) == [level |-> level, what |-> what, code |-> code]

\* src/app.py:80-84 and the return into the caller: the frame goes back to a
\* direct caller, or rates_for_currencies goes on with src/app.py:115-120
FetchReturns(df) ==
    /\ df_all' = df
    /\ IF caller = "direct"
       THEN /\ pc' = "returned"
            /\ UNCHANGED aggVars
       ELSE /\ pc' = "for"
            /\ i' = i + 1
            /\ IF IsEmpty(df)
               THEN /\ messages' = Append(messages, Msg("info", "no data", codes[i]))
                    /\ series' = series
               ELSE /\ series' = Append(series, Renamed(codes[i], df))
                    /\ messages' = messages
            /\ UNCHANGED <<codes, currency_map, start, end, ret, df_rates_ts>>

\* src/app.py:59-63: entry of chunked_dynamics_fetch(id, from, to)
FetchCalled(id, from, to) ==
    /\ cur_id' = id
    /\ cur_start' = from
    /\ cur_end' = to
    /\ dfs' = <<>>
    /\ UNCHANGED requests
    /\ IF to < from
       THEN /\ s' = s
            /\ FetchReturns(<<>>)
       ELSE /\ s' = from
            /\ IF LoopCond(from, to)
               THEN /\ pc' = "while"
                    /\ df_all' = df_all
                    /\ UNCHANGED aggVars
               ELSE FetchReturns(Merge(<<>>))

\* end of one loop iteration with s and dfs updated: back to src/app.py:64
LoopBack(nextS, nextDfs) ==
    /\ s' = nextS
    /\ dfs' = nextDfs
    /\ UNCHANGED fetchArgs
    /\ IF LoopCond(nextS, cur_end)
       THEN /\ pc' = "while"
            /\ df_all' = df_all
            /\ UNCHANGED aggVars
       ELSE FetchReturns(Merge(nextDfs))

\* a 404 treated like any other failure
Handle404Raises(chunk_end) ==
    /\ pc' = "raised"
    /\ UNCHANGED <<s, dfs, df_all, fetchArgs, aggVars>>

\* src/app.py:69-72
Handle404(chunk_end) == LoopBack(chunk_end + 1, dfs)

\* a failure swallowed like a 404
HandleFailureContinues(chunk_end) == LoopBack(chunk_end + 1, dfs)

\* src/app.py:73: raise_for_status() raises; nothing in
\* chunked_dynamics_fetch or rates_for_currencies catches it
HandleFailure(chunk_end) ==
    /\ pc' = "raised"
    /\ UNCHANGED <<s, dfs, df_all, fetchArgs, aggVars>>

\* src/app.py:54-63: chunked_dynamics_fetch called on its own
FetchEntry ==
    /\ caller = "direct"
    /\ pc = "call"
    /\ FetchCalled(cur_id, cur_start, cur_end)
    /\ UNCHANGED <<caller, cmpVars>>

\* src/app.py:64-72: one window answered 404
Request404 ==
    /\ pc = "while"
    /\ LET chunk_end == ChunkEnd(s, cur_end)
       IN /\ requests' = Append(requests, Exchange(cur_id, s, chunk_end, 404, <<>>))
          /\ Handle404(chunk_end)
    /\ UNCHANGED <<caller, cmpVars>>

\* src/app.py:64-73: one window answered with another failure status
RequestError ==
    /\ pc = "while"
    /\ LET chunk_end == ChunkEnd(s, cur_end)
       IN /\ requests' = Append(requests, Exchange(cur_id, s, chunk_end, 500, <<>>))
          /\ HandleFailure(chunk_end)
    /\ UNCHANGED <<caller, cmpVars>>

\* src/app.py:64-79: one window answered 200 with a JSON list
RequestOk ==
    /\ pc = "while"
    /\ LET chunk_end == ChunkEnd(s, cur_end)
       IN \E chunk \in Bodies(s, chunk_end) :
            /\ requests' = Append(requests, Exchange(cur_id, s, chunk_end, 200, chunk))
            /\ LoopBack(chunk_end + 1,
                        IF chunk # <<>> THEN Append(dfs, chunk) ELSE dfs)
    /\ UNCHANGED <<caller, cmpVars>>

\* src/app.py:92-114: one code of the for loop up to the call of the fetcher
ForCode ==
    /\ caller = "rates_for_currencies"
    /\ pc = "for"
    /\ i <= Len(codes)
    /\ LET code == codes[i]
           rows == RowsFor(code, currency_map)
           valid == ValidRows(rows, start, end)
       IN IF rows = <<>>
          THEN /\ messages' = Append(messages, Msg("warning", "not found", code))
               /\ i' = i + 1
               /\ UNCHANGED <<pc, codes, currency_map, start, end, series, ret,
                              df_rates_ts, fetchArgs, s, dfs, df_all, requests>>
          ELSE IF valid = <<>>
          THEN /\ messages' = Append(messages, Msg("info", "no Cur_ID", code))
               /\ i' = i + 1
               /\ UNCHANGED <<pc, codes, currency_map, start, end, series, ret,
                              df_rates_ts, fetchArgs, s, dfs, df_all, requests>>
          ELSE FetchCalled(Pick(valid).Cur_ID,
                           ClampStart(start, Pick(valid)),
                           ClampEnd(end, Pick(valid)))
    /\ UNCHANGED <<caller, cmpVars>>

\* src/app.py:121-124: the for loop is over
Return ==
    /\ caller = "rates_for_currencies"
    /\ pc = "for"
    /\ i > Len(codes)
    /\ ret' = IF series = <<>> THEN EmptyFrame ELSE ConcatAxis1(series)
    /\ pc' = "returned"
    /\ UNCHANGED <<caller, codes, currency_map, start, end, i, series, messages,
                   df_rates_ts, fetchArgs, s, dfs, df_all, requests, cmpVars>>

\* src/app.py:234-239: the chart section around the call (the sidebar, lines
\* 155-157, stops the script before it unless start_date <= end_date); its
\* st.error shows the exception's text and names no code
ChartSection ==
    /\ caller = "rates_for_currencies"
    /\ pc \in {"returned", "raised"}
    /\ start <= end
    /\ IF pc = "raised"
       THEN /\ messages' = Append(messages, Msg("error", "dynamics", ""))
            /\ df_rates_ts' = EmptyFrame
       ELSE /\ messages' = messages
            /\ df_rates_ts' = ret
    /\ pc' = "done"
    /\ UNCHANGED <<caller, codes, currency_map, start, end, i, series, ret,
                   fetchArgs, s, dfs, df_all, requests, cmpVars>>


\* ------------------------------------------------------------ initial states
\* values of the variables an operation does not use
IdleFetch ==
    /\ cur_id = 0 /\ cur_start = 0 /\ cur_end = 0
    /\ s = 0 /\ dfs = <<>> /\ df_all = <<>> /\ requests = <<>>

IdleAgg ==
    /\ codes = <<>> /\ currency_map = <<>> /\ start = 0 /\ end = 0
    /\ i = 1 /\ series = <<>> /\ messages = <<>>
    /\ ret = EmptyFrame /\ df_rates_ts = EmptyFrame

IdleCmp ==
    /\ selected_codes = {} /\ today_rates_df = <<>>
    /\ response_7 = [ok |-> FALSE, body |-> <<>>]
    /\ today_filtered = <<>> /\ rates_7 = <<>>
    /\ table_df = <<>> /\ display_df = <<>>

\* lengths in days of the ranges handed to chunked_dynamics_fetch: around
\* every multiple of max_days, and Horizon; the negative ones give end < start
Spans ==
    {k * max_days + j : k \in 0..MaxChunks, j \in (0 - MaxSlack)..MaxSlack}
        \cup {Horizon}

\* chunked_dynamics_fetch(cur_id, start, end) about to be called
InitFetch ==
    /\ caller = "direct"
    /\ pc = "call"
    /\ cur_id = 431
    /\ cur_start \in 0..MaxSlack
    /\ \E n \in Spans : cur_end = cur_start + n - 1
    /\ s = 0 /\ dfs = <<>> /\ df_all = <<>> /\ requests = <<>>
    /\ IdleAgg
    /\ IdleCmp

\* codes of the directory, and one code the directory does not hold
DirCodes == {"USD", "RUB"}
Codes == DirCodes \cup {"XXX"}

\* Cur_Scale of the directory's records of a code
ScaleOf(code) == IF code = "RUB" THEN 100 ELSE 1

\* dates the aggregator's arguments and the validity windows are taken from
Grid == {0, Horizon}

\* the directories: up to MaxRecs records in any order, Cur_ID unique
Directories ==
    LET Shapes == {sh \in DirCodes \X Grid \X Grid : sh[2] <= sh[3]}
    IN {[k \in 1..Len(d) |->
            CurRow(430 + k, d[k][1], ScaleOf(d[k][1]), d[k][2], d[k][3])]
           : d \in SeqsUpTo(Shapes, MaxRecs)}

\* rates_for_currencies(codes, currency_map, start, end) about to run
InitAgg ==
    /\ caller = "rates_for_currencies"
    /\ pc = "for"
    /\ codes \in SeqsUpTo(Codes, MaxCodes)
    /\ currency_map \in Directories
    /\ start \in Grid
    /\ end \in Grid
    /\ i = 1 /\ series = <<>> /\ messages = <<>>
    /\ ret = EmptyFrame /\ df_rates_ts = EmptyFrame
    /\ IdleFetch
    /\ IdleCmp

NextFetch == FetchEntry \/ Request404 \/ RequestError \/ RequestOk

NextAgg ==
    ForCode \/ Request404 \/ RequestError \/ RequestOk \/ Return \/ ChartSection

SpecFetch == InitFetch /\ [][NextFetch]_vars

SpecAgg == InitAgg /\ [][NextAgg]_vars


\* ------------------------------------------------------- snapshot comparison
\* A float64 cell: a finite value n/d (d > 0), NaN, inf or -inf.
Num(n, d) == [k |-> "num", n |-> n, d |-> d]
NaN == [k |-> "nan", n |-> 0, d |-> 1]
PosInf == [k |-> "inf", n |-> 0, d |-> 1]
NegInf == [k |-> "-inf", n |-> 0, d |-> 1]

\* float64 subtraction
FSub(a, b) ==
    IF a.k = "num" /\ b.k = "num"
    THEN Num(a.n * b.d - b.n * a.d, a.d * b.d)
    ELSE NaN

\* float64 division of two finite-or-NaN cells (numpy: no exception, x/0 is
\* inf or -inf by the sign of x and 0/0 is NaN)
FDiv(a, b) ==
    IF a.k # "num" \/ b.k # "num" THEN NaN
    ELSE IF b.n = 0
         THEN IF a.n > 0 THEN PosInf ELSE IF a.n < 0 THEN NegInf ELSE NaN
    ELSE IF b.n > 0 THEN Num(a.n * b.d, a.d * b.n)
    ELSE Num(0 - a.n * b.d, a.d * (0 - b.n))

\* float64 multiplication by the integer 100
FTimes100(a) == IF a.k = "num" THEN Num(a.n * 100, a.d) ELSE a

\* n/d (d > 0) rounded to the nearest integer, ties to even
RoundHalfEven(n, d) ==
    LET q == n \div d
        r == n % d
    IN IF 2 * r < d THEN q
       ELSE IF 2 * r > d THEN q + 1
       ELSE IF q % 2 = 0 THEN q ELSE q + 1

\* Series.round(6) of a column counted in 1/100: to the nearest 1/10000 of
\* the unit; NaN stays NaN
Round6(a) ==
    IF a.k = "num" THEN Num(RoundHalfEven(a.n * 10000, a.d), 10000) ELSE a

\* src/app.py:210: f"{x:.2f}%" if pd.notna(x) else "—"; the text is "pct"
\* with the value in hundredths of a percent, "inf" / "-inf" for the texts
\* "inf%" / "-inf%", or "dash" (binary representation error of the float is
\* not modelled: the value is rounded exactly)
PctText(x) ==
    IF x.k = "nan" THEN [text |-> "dash", hundredths |-> 0]
    ELSE IF x.k = "num"
    THEN [text |-> "pct", hundredths |-> RoundHalfEven(x.n * 100, x.d)]
    ELSE [text |-> x.k, hundredths |-> 0]

\* codes of the snapshots, and their place in the order sort_values uses
CmpCodes == {"EUR", "USD"}
CodeRank(code) == IF code = "EUR" THEN 1 ELSE 2

\* frames of one row per code, the codes distinct, in any order
SnapshotRows(rates) ==
    {sq \in SeqsUpTo(CmpCodes \X rates, Cardinality(CmpCodes)) :
        \A a, b \in 1..Len(sq) : a # b => sq[a][1] # sq[b][1]}

\* src/app.py:168-179
TodayFiltered(df, selected) ==
    LET Test(r) == r.Cur_Abbreviation \in selected
        kept == SelectSeq(df, Test)
    IN [k \in 1..Len(kept) |->
           [Code |-> kept[k].Cur_Abbreviation,
            Rate_BYN_per_scale |-> Num(kept[k].Cur_OfficialRate, 1)]]

\* src/app.py:191-192: a frame of the answer's rows; selecting the two columns
\* of the frame of an empty list raises KeyError
Rates7(body) ==
    [k \in 1..Len(body) |->
        [Code |-> body[k].Cur_Abbreviation,
         Rate_7d_ago |-> Num(body[k].Cur_OfficialRate, 1)]]

\* src/app.py:197-198: today_filtered.merge(rates_7, on="Code", how="left")
RECURSIVE MergeLeft(_, _)
MergeLeft(left, right) ==
    IF left = <<>> THEN <<>>
    ELSE LET row == Head(left)
             Test(r) == r.Code = row.Code
             hits == SelectSeq(right, Test)
             out == IF hits = <<>>
                    THEN <<[Code |-> row.Code,
                            Rate_BYN_per_scale |-> row.Rate_BYN_per_scale,
                            Rate_7d_ago |-> NaN]>>
                    ELSE [k \in 1..Len(hits) |->
                            [Code |-> row.Code,
                             Rate_BYN_per_scale |-> row.Rate_BYN_per_scale,
                             Rate_7d_ago |-> hits[k].Rate_7d_ago]]
         IN out \o MergeLeft(Tail(left), right)

\* src/app.py:199-201
WithChanges(row) ==
    LET abs == FSub(row.Rate_BYN_per_scale, row.Rate_7d_ago)
    IN [Code |-> row.Code,
        Rate_BYN_per_scale |-> row.Rate_BYN_per_scale,
        Rate_7d_ago |-> row.Rate_7d_ago,
        Change_abs |-> abs,
        Change_pct |-> FTimes100(FDiv(abs, row.Rate_7d_ago))]

\* src/app.py:202: sort_values("Code").reset_index(drop=True)
SortByCode(df) ==
    LET Ins(sorted, row) ==
            LET n == Cardinality({j \in 1..Len(sorted) :
                        CodeRank(sorted[j].Code) <= CodeRank(row.Code)})
            IN SubSeq(sorted, 1, n) \o <<row>> \o SubSeq(sorted, n + 1, Len(sorted))
        F[k \in 0..Len(df)] ==
            IF k = 0 THEN <<>> ELSE Ins(F[k - 1], df[k])
    IN F[Len(df)]

\* src/app.py:206-210
Display(row) ==
    [Code |-> row.Code,
     Rate_BYN_per_scale |-> Round6(row.Rate_BYN_per_scale),
     Rate_7d_ago |-> Round6(row.Rate_7d_ago),
     Change_abs |-> Round6(row.Change_abs),
     Change_pct |-> PctText(row.Change_pct)]

\* src/app.py:168-194: today's rows of the selection, then the compare-date
\* snapshot is requested; any exception leaves the empty frame
CompareFetch ==
    /\ caller = "compare"
    /\ pc = "snapshot"
    /\ today_filtered' = TodayFiltered(today_rates_df, selected_codes)
    /\ \/ /\ response_7' = [ok |-> FALSE, body |-> <<>>]
          /\ rates_7' = <<>>
       \/ \E rows \in SnapshotRows(Rates \cup {0}) :
            LET body == [k \in 1..Len(rows) |->
                            [Cur_Abbreviation |-> rows[k][1],
                             Cur_OfficialRate |-> rows[k][2]]]
            IN /\ response_7' = [ok |-> TRUE, body |-> body]
               /\ rates_7' = IF body = <<>> THEN <<>> ELSE Rates7(body)
    /\ pc' = "table"
    /\ UNCHANGED <<caller, selected_codes, today_rates_df, table_df, display_df,
                   aggVars, fetchArgs, s, dfs, df_all, requests>>

\* src/app.py:197-210: the merged table and its formatted copy
CompareTable ==
    /\ caller = "compare"
    /\ pc = "table"
    /\ LET merged == MergeLeft(today_filtered, rates_7)
           table == SortByCode([k \in 1..Len(merged) |-> WithChanges(merged[k])])
       IN /\ table_df' = table
          /\ display_df' = [k \in 1..Len(table) |-> Display(table[k])]
    /\ pc' = "shown"
    /\ UNCHANGED <<caller, selected_codes, today_rates_df, response_7,
                   today_filtered, rates_7,
                   aggVars, fetchArgs, s, dfs, df_all, requests>>

\* the script at line 164: the directory and today's snapshot are loaded and
\* the selection is not empty (src/app.py:145-147)
InitCmp ==
    /\ caller = "compare"
    /\ pc = "snapshot"
    /\ selected_codes \in (SUBSET CmpCodes) \ {{}}
    /\ \E rows \in SnapshotRows(Rates) :
          today_rates_df = [k \in 1..Len(rows) |->
                               [Cur_Abbreviation |-> rows[k][1],
                                Cur_OfficialRate |-> rows[k][2]]]
    /\ response_7 = [ok |-> FALSE, body |-> <<>>]
    /\ today_filtered = <<>> /\ rates_7 = <<>>
    /\ table_df = <<>> /\ display_df = <<>>
    /\ IdleAgg
    /\ IdleFetch

NextCmp == CompareFetch \/ CompareTable

SpecCmp == InitCmp /\ [][NextCmp]_vars


\* both entry points of the fetcher: on its own and under the aggregator
InitAll == InitFetch \/ InitAgg

NextAll ==
    \/ FetchEntry
    \/ ForCode
    \/ Request404
    \/ RequestError
    \/ RequestOk
    \/ Return
    \/ ChartSection

SpecAll == InitAll /\ [][NextAll]_vars

\* ==================================================================== claims
\* what the exchanges so far say
NoFailure == \A k \in 1..Len(requests) : requests[k].status \in {200, 404}
DirectReturned == caller = "direct" /\ pc = "returned"
\* rows of the bodies answered so far, in window order
AnsweredRows == Concat([k \in 1..Len(requests) |-> requests[k].body])

\* C2: for start <= end and no failing window, the fetcher issues one request
\* per window, the k-th window being [start + 365 k, min(start + 365 k + 364,
\* end)]: each window holds 1 to 365 days, the first begins at start, each
\* next one begins the day after the previous one ends and the last ends at
\* end (so every day of the range lies in exactly one window, which is also
\* checked of the first and last day of the range and of every window), and
\* the number of requests is ceil(days / 365).
C2_WindowsPartitionRange ==
    (DirectReturned /\ cur_start <= cur_end /\ NoFailure) =>
        LET n == Len(requests)
            days == cur_end - cur_start + 1
        IN /\ n = (days + 364) \div 365
           /\ \A k \in 1..n :
                /\ requests[k].startdate = cur_start + 365 * (k - 1)
                /\ requests[k].enddate =
                      Min(cur_start + 365 * (k - 1) + 364, cur_end)
                /\ requests[k].startdate <= requests[k].enddate
                /\ requests[k].enddate - requests[k].startdate + 1 <= 365
           /\ requests[1].startdate = cur_start
           /\ requests[n].enddate = cur_end
           /\ \A k \in 1..(n - 1) :
                requests[k + 1].startdate = requests[k].enddate + 1
           /\ \A d \in {cur_start, cur_end}
                      \cup {requests[k].startdate : k \in 1..n}
                      \cup {requests[k].enddate : k \in 1..n} :
                Cardinality({k \in 1..n : /\ requests[k].startdate <= d
                                          /\ d <= requests[k].enddate}) = 1

\* a 400-day range was fetched with two requests
C2_Witness ==
    /\ DirectReturned
    /\ NoFailure
    /\ cur_end - cur_start + 1 = 400
    /\ Len(requests) = 2
    /\ requests[2].enddate - requests[2].startdate + 1 = 35

\* C3: a window answered 404 adds no rows and the fetch goes on with the next
\* window (or returns, after the last one); a window answered with another
\* failure is the last one requested and the fetch ends raising, never
\* returning a frame.
C3_NotFoundContinuesFailureAborts ==
    /\ caller = "direct" =>
         \A k \in 1..Len(requests) :
            /\ requests[k].status = 404 =>
                 /\ requests[k].body = <<>>
                 /\ pc # "raised" \/ k < Len(requests)
                 /\ requests[k].enddate < cur_end =>
                      \/ /\ k < Len(requests)
                         /\ requests[k + 1].startdate = requests[k].enddate + 1
                      \/ /\ k = Len(requests)
                         /\ pc = "while"
                         /\ s = requests[k].enddate + 1
                 /\ (requests[k].enddate = cur_end) =>
                      /\ k = Len(requests)
                      /\ pc = "returned"
            /\ requests[k].status \notin {200, 404} =>
                 /\ k = Len(requests)
                 /\ pc = "raised"
    /\ DirectReturned =>
         /\ NoFailure
         /\ \A j \in 1..Len(df_all) :
               \E k \in 1..Len(requests) :
                  /\ requests[k].status = 200
                  /\ \E m \in 1..Len(requests[k].body) :
                        requests[k].body[m] = df_all[j]
    /\ (caller = "direct" /\ pc = "raised") =>
         /\ requests # <<>>
         /\ requests[Len(requests)].status \notin {200, 404}
         /\ df_all = <<>>

\* a 404 for the first window was followed by the request of the second; the
\* second failed and the fetch raised with days of the range left unfetched
C3_Witness ==
    /\ caller = "direct"
    /\ pc = "raised"
    /\ Len(requests) = 2
    /\ requests[1].status = 404
    /\ requests[2].status = 500
    /\ requests[2].enddate < cur_end

\* C4: the returned frame has strictly increasing dates, one row for every
\* date some window answered, that row being the first one with the date in
\* window order; with no row answered at all the frame is empty and the
\* fetch returns (it does not raise).
C4_MergedSeriesUniqueSortedFirstKept ==
    DirectReturned =>
        LET all == AnsweredRows
        IN /\ \A j \in 1..(Len(df_all) - 1) :
                 df_all[j].Date < df_all[j + 1].Date
           /\ \A m \in 1..Len(all) :
                 \E j \in 1..Len(df_all) : df_all[j].Date = all[m].Date
           /\ \A j \in 1..Len(df_all) :
                 \E m \in 1..Len(all) :
                    /\ all[m] = df_all[j]
                    /\ \A m2 \in 1..(m - 1) : all[m2].Date # all[m].Date
           /\ (all = <<>>) => df_all = <<>>

\* the same date answered by two windows with different rates, and a window
\* that answered a date twice
C4_Witness ==
    /\ DirectReturned
    /\ \E k1, k2 \in 1..Len(requests) :
          /\ k1 < k2
          /\ \E a \in 1..Len(requests[k1].body), b \in 1..Len(requests[k2].body) :
                /\ requests[k1].body[a].Date = requests[k2].body[b].Date
                /\ requests[k1].body[a].Cur_OfficialRate
                      # requests[k2].body[b].Cur_OfficialRate
    /\ \E k \in 1..Len(requests) :
          /\ Len(requests[k].body) = 2
          /\ requests[k].body[1].Date = requests[k].body[2].Date
          /\ requests[k].body[1].Cur_OfficialRate
                # requests[k].body[2].Cur_OfficialRate

\* all windows answered 404 or with no rows: the empty frame is returned
C4_WitnessEmpty ==
    /\ DirectReturned
    /\ Len(requests) = 3
    /\ AnsweredRows = <<>>
    /\ df_all = <<>>


\* ---------------------------------------------------- aggregator's claims
AggRunning == caller = "rates_for_currencies"
AggReturned == AggRunning /\ pc = "returned"

\* a validity window holds every day of from..to
CoversRange(rec, from, to) ==
    \A d \in from..to : rec.Cur_DateStart <= d /\ d <= rec.Cur_DateEnd

\* a validity window holds the day
CoversDay(rec, d) == rec.Cur_DateStart <= d /\ d <= rec.Cur_DateEnd

\* least element of a non-empty set of numbers
Least(S) == CHOOSE x \in S : \A y \in S : x <= y

\* index in the directory of the record the claims expect for codes[k], or 0
Expected(k) ==
    LET cand == {n \in 1..Len(currency_map) :
                    currency_map[n].Cur_Abbreviation = codes[k]}
        full == {n \in cand : CoversRange(currency_map[n], start, end)}
        first == {n \in cand : CoversDay(currency_map[n], start)}
    IN IF full # {} THEN Least(full)
       ELSE IF first # {} THEN Least(first)
       ELSE 0

\* no record of the code at index k holds start or covers the range
Unresolved(k) ==
    \A n \in 1..Len(currency_map) :
        currency_map[n].Cur_Abbreviation = codes[k] =>
            /\ ~CoversDay(currency_map[n], start)
            /\ ~CoversRange(currency_map[n], start, end)

\* the code at index k got rows from the upstream
Yielded(k) ==
    \E n \in 1..Len(requests) :
        requests[n].i = k /\ requests[n].status = 200 /\ requests[n].body # <<>>

\* the code at index k had a window fail
Failed(k) ==
    \E n \in 1..Len(requests) :
        requests[n].i = k /\ requests[n].status \notin {200, 404}

\* codes of the indexes of a set, in increasing index order
RECURSIVE CodesOf(_)
CodesOf(S) ==
    IF S = {} THEN <<>>
    ELSE <<codes[Least(S)]>> \o CodesOf(S \ {Least(S)})

\* C1: a non-404 failure of one code's fetch does not abort the aggregation:
\* when the chart section is through, every code has been processed and the
\* table holds a column for every code that yielded rows.
C1_FailureDoesNotAbort ==
    (AggRunning /\ pc = "done") =>
        /\ i > Len(codes)
        /\ \A k \in 1..Len(codes) :
              (Yielded(k) /\ ~Failed(k)) =>
                 \E c \in 1..Len(df_rates_ts.columns) :
                    df_rates_ts.columns[c] = codes[k]

\* C5: for start <= end the record used for a code is the first one in
\* directory order, among those of the code, whose window covers the whole
\* range; failing that, the first whose window holds start; failing that,
\* the code is skipped with a message and nothing is requested for it.
C5_ResolutionOrder ==
    [][(AggRunning /\ pc = "for" /\ i <= Len(codes) /\ start <= end) =>
          IF Expected(i) = 0
          THEN /\ pc' = "for"
               /\ i' = i + 1
               /\ requests' = requests
               /\ series' = series
               /\ Len(messages') = Len(messages) + 1
               /\ messages'[Len(messages')].code = codes[i]
               /\ messages'[Len(messages')].what \in {"not found", "no Cur_ID"}
          ELSE /\ pc' = "while"
               /\ cur_id' = currency_map[Expected(i)].Cur_ID]_vars

\* the second record of the code covers the range, the first one only its
\* start: the second one is being fetched
C5_Witness ==
    /\ AggRunning
    /\ pc = "while"
    /\ start < end
    /\ Len(currency_map) = 2
    /\ currency_map[1].Cur_Abbreviation = codes[i]
    /\ currency_map[2].Cur_Abbreviation = codes[i]
    /\ CoversDay(currency_map[1], start)
    /\ ~CoversRange(currency_map[1], start, end)
    /\ CoversRange(currency_map[2], start, end)
    /\ cur_id = currency_map[2].Cur_ID

\* C6: a value stored under a code is the official rate the upstream answered
\* for that date divided by the Cur_Scale of the code's record.
C6_ColumnsNormalized ==
    AggReturned =>
        \A c \in 2..Len(ret.columns) :
           \A n \in 1..Len(ret.rows) :
              \A v \in ret.rows[n].cells[c - 1] :
                 \E k \in 1..Len(codes), m \in 1..Len(requests) :
                    /\ codes[k] = ret.columns[c]
                    /\ Expected(k) # 0
                    /\ requests[m].i = k
                    /\ \E j \in 1..Len(requests[m].body) :
                          /\ requests[m].body[j].Date = ret.rows[n].Date
                          /\ v * currency_map[Expected(k)].Cur_Scale
                                = requests[m].body[j].Cur_OfficialRate

\* C8: with end < start the fetcher returns the empty frame without any
\* request, called on its own or by rates_for_currencies, which then requests
\* nothing for any code.
C8_InvertedRangeNoRequest ==
    /\ (caller = "direct" /\ cur_end < cur_start) =>
          /\ requests = <<>>
          /\ pc \in {"call", "returned"}
          /\ df_all = <<>>
    /\ (AggRunning /\ end < start) =>
          /\ requests = <<>>
          /\ pc \in {"for", "returned"}
          /\ df_all = <<>>
          /\ series = <<>>
          /\ ret = EmptyFrame

\* rates_for_currencies returned after handing an inverted range to the
\* fetcher for a code of the directory
C8_Witness ==
    /\ AggReturned
    /\ end < start
    /\ cur_end < cur_start
    /\ cur_id # 0
    /\ \E m \in 1..Len(messages) : messages[m].what = "no data"

\* the fetcher returned from a call of its own with an inverted range
C8_WitnessDirect ==
    /\ DirectReturned
    /\ cur_end < cur_start

\* C9: when no fetch fails, the returned table's columns are Date and then,
\* in input order, the codes that got rows; a code with no usable record is
\* left out with a message, a code with no rows is left out, no column is
\* empty throughout, and with no code left the result is the frame without
\* any column.
C9_ColumnsAreYieldingCodes ==
    AggReturned =>
        LET yielding == {k \in 1..Len(codes) : Yielded(k)}
        IN /\ NoFailure
           /\ (yielding = {}) => ret = EmptyFrame
           /\ (yielding # {}) =>
                 /\ ret.columns = <<"Date">> \o CodesOf(yielding)
                 /\ ret.rows # <<>>
                 /\ \A c \in 1..(Len(ret.columns) - 1) :
                       \E n \in 1..Len(ret.rows) : ret.rows[n].cells[c] # {}
           /\ \A k \in 1..Len(codes) :
                 (start <= end /\ Unresolved(k)) =>
                    /\ ~Yielded(k)
                    /\ \E m \in 1..Len(messages) :
                          /\ messages[m].code = codes[k]
                          /\ messages[m].what \in {"not found", "no Cur_ID"}

\* of two codes the first has a record but got no rows, the second got rows
C9_Witness ==
    /\ AggReturned
    /\ Len(codes) = 2
    /\ codes[1] # codes[2]
    /\ \E n \in 1..Len(requests) : requests[n].i = 1
    /\ ~Yielded(1)
    /\ Yielded(2)
    /\ ret.columns = <<"Date", codes[2]>>

\* C10: for start <= end the range handed to the fetcher is
\* [max(start, Cur_DateStart), min(end, Cur_DateEnd)] of the record used, it
\* is not empty, and every window requested lies in [start, end] and in that
\* record's validity window.
C10_FetchRangeClamped ==
    (AggRunning /\ start <= end) =>
        /\ pc = "while" =>
              \E n \in 1..Len(currency_map) :
                 /\ currency_map[n].Cur_ID = cur_id
                 /\ currency_map[n].Cur_Abbreviation = codes[i]
                 /\ cur_start = Max(start, currency_map[n].Cur_DateStart)
                 /\ cur_end = Min(end, currency_map[n].Cur_DateEnd)
                 /\ cur_start <= cur_end
        /\ \A m \in 1..Len(requests) :
              \E n \in 1..Len(currency_map) :
                 /\ currency_map[n].Cur_ID = requests[m].cur_id
                 /\ currency_map[n].Cur_Abbreviation = codes[requests[m].i]
                 /\ requests[m].startdate <= requests[m].enddate
                 /\ start <= requests[m].startdate
                 /\ requests[m].enddate <= end
                 /\ currency_map[n].Cur_DateStart <= requests[m].startdate
                 /\ requests[m].enddate <= currency_map[n].Cur_DateEnd

\* a record that ends before the range does was fetched up to its last day
C10_Witness ==
    /\ AggReturned
    /\ start < end
    /\ requests # <<>>
    /\ \E n \in 1..Len(currency_map) :
          /\ currency_map[n].Cur_ID = requests[1].cur_id
          /\ currency_map[n].Cur_DateEnd < end
          /\ requests[1].enddate = currency_map[n].Cur_DateEnd


\* ---------------------------------------------------- comparison's claims
\* today's official rate of a code of the reference snapshot
ReferenceRate(code) ==
    LET n == CHOOSE n \in 1..Len(today_rates_df) :
                today_rates_df[n].Cur_Abbreviation = code
    IN today_rates_df[n].Cur_OfficialRate

\* official rates the compare-date snapshot answered for a code
CompareRates(code) ==
    IF response_7.ok
    THEN {response_7.body[n].Cur_OfficialRate :
             n \in {n \in 1..Len(response_7.body) :
                       response_7.body[n].Cur_Abbreviation = code}}
    ELSE {}

\* the rows of the table are the selected codes of the reference snapshot
TableRowsAreSelectedCodes ==
    /\ \A n \in 1..Len(table_df) :
          /\ table_df[n].Code \in selected_codes
          /\ display_df[n].Code = table_df[n].Code
    /\ Len(display_df) = Len(table_df)
    /\ \A code \in selected_codes :
          (\E n \in 1..Len(today_rates_df) :
              today_rates_df[n].Cur_Abbreviation = code)
          => \E n \in 1..Len(table_df) : table_df[n].Code = code

\* the row's changes are unavailable when the compare snapshot has no rate
\* for its code
MissingCompareUnavailable(n) ==
    CompareRates(table_df[n].Code) = {} =>
        /\ table_df[n].Change_abs.k = "nan"
        /\ table_df[n].Change_pct.k = "nan"
        /\ display_df[n].Change_abs.k = "nan"
        /\ display_df[n].Change_pct.text = "dash"

\* the row's percentage is unavailable when the compare rate is zero
ZeroCompareUnavailable(n) ==
    CompareRates(table_df[n].Code) = {0} =>
        /\ table_df[n].Change_pct.k = "nan"
        /\ display_df[n].Change_pct.text = "dash"

\* the row reports no infinite percentage
NoInfinitePercent(n) ==
    /\ table_df[n].Change_pct.k \in {"num", "nan"}
    /\ display_df[n].Change_pct.text \in {"pct", "dash"}

\* the row's percentage is (reference - compare) / compare * 100
PercentFormula(n) ==
    \A cmp \in CompareRates(table_df[n].Code) \ {0} :
        LET ref == ReferenceRate(table_df[n].Code)
            pct == table_df[n].Change_pct
        IN /\ pct.k = "num"
           /\ pct.n * cmp = (ref - cmp) * 100 * pct.d
           /\ table_df[n].Change_abs.k = "num"
           /\ table_df[n].Change_abs.n = (ref - cmp) * table_df[n].Change_abs.d

\* C7: in the shown table, a row whose code the compare snapshot lacks (or
\* whose compare snapshot could not be fetched) has both changes unavailable,
\* a row whose compare rate is zero has its percentage unavailable, no row
\* reports an infinite percentage, and every other row's percentage is
\* (reference - compare) / compare * 100.
C7_UnavailableOrPercent ==
    (caller = "compare" /\ pc = "shown") =>
        /\ TableRowsAreSelectedCodes
        /\ \A n \in 1..Len(table_df) :
              /\ MissingCompareUnavailable(n)
              /\ ZeroCompareUnavailable(n)
              /\ NoInfinitePercent(n)
              /\ PercentFormula(n)

\* what the comparison does keep of C7: everything but the zero compare rate
C7_HoldsButForZeroCompare ==
    (caller = "compare" /\ pc = "shown") =>
        /\ TableRowsAreSelectedCodes
        /\ \A n \in 1..Len(table_df) :
              /\ MissingCompareUnavailable(n)
              /\ PercentFormula(n)
              /\ 0 \notin CompareRates(table_df[n].Code) => NoInfinitePercent(n)

====
